---- MODULE Spec2Model ----
(***************************************************************************)
(* A state-machine model of the DataStore class of                         *)
(* src/src/create_datastore.py: one DataStore instance (replaced by        *)
(* Construct), the directory it saves to and loads from, and the result of *)
(* the last call made on it.                                               *)
(*                                                                         *)
(* The FAISS index (IndexIVFFlat behind self.index) is modelled by what    *)
(* the library does with the calls the class makes: sequential vector ids, *)
(* assignment of a vector to its nearest centroid, a search that probes    *)
(* nprobe lists and pads a short result with id -1 and distance FLT_MAX.   *)
(* Vectors are scaled down to one integer coordinate; distances are        *)
(* squared Euclidean distances.                                            *)
(***************************************************************************)
EXTENDS Integers, Sequences, FiniteSets

\* ------------------------------------------------------------------ bounds

\* Cap on the number of vectors in the index.
MaxTotal == 2
\* Largest k a search asks for.
MaxK == 2

\* Coordinates of queries.
Coord == {0, 1}
\* The rows a feature directory is made of: a key, its label token id and
\* its input token id.
Rows ==
    { [key |-> 0, label |-> 0, input |-> 10],
      [key |-> 1, label |-> 1, input |-> 11] }
\* Arguments given to set_vocab_size.
VocabArgs == {1, 2}
\* Temperatures given to search_k.
Temps == {-1, 0, 1, 2}

\* ------------------------------------------------------- program constants

\* n_centroids = 4096 in __init__, scaled down (nprobe < n_centroids kept).
n_centroids == 2
\* index.nprobe = 32 in __init__, scaled down.
nprobe == 1
\* self.vocab_size = -1 in __init__.
InitVocabSize == -1

\* Rows in the feature directory: the smallest sample k-means accepts, so
\* that a smaller percentage of it is refused.
FeatureRows == n_centroids

\* ------------------------------------------------------------- FAISS index

Dist2(a, b) == (a - b) * (a - b)

\* Stands for FLT_MAX, the distance FAISS reports for a missing neighbour:
\* larger than every distance between two coordinates of the model.
FltMax == 1 + Dist2(0, 1 + CHOOSE m \in Coord : \A c \in Coord : c <= m)
\* The id FAISS reports for a missing neighbour.
PadId == 0 - 1

\* A freshly constructed (GPU, untrained) index.
EmptyIndex ==
    [trained |-> FALSE, centroids |-> << >>,
     lists |-> << >>, ntotal |-> 0]

\* The centroid nearest to v, the lowest index among equally near ones.
Nearest(cs, v) ==
    CHOOSE c \in 1..Len(cs) :
        \A o \in 1..Len(cs) :
            \/ Dist2(cs[c], v) < Dist2(cs[o], v)
            \/ Dist2(cs[c], v) = Dist2(cs[o], v) /\ c <= o

\* index.train(keys) on an untrained index: the centroid sets k-means may
\* return. Its initial centroids are rows of the sample; the refinement of
\* the centroids is not modelled.
TrainOutcomes(keys) ==
    { [c \in 1..n_centroids |-> keys[f[c]]] :
        f \in { g \in [1..n_centroids -> 1..Len(keys)] :
                    \A a, b \in 1..n_centroids : a # b => g[a] # g[b] } }

TrainedIndex(cs) ==
    [trained |-> TRUE, centroids |-> cs,
     lists |-> [c \in 1..Len(cs) |-> << >>], ntotal |-> 0]

RECURSIVE IndexAddSkipsIds(_, _)
\* IndexAdd with a counter that advances by two for each vector.
IndexAddSkipsIds(idx, keys) ==
    IF keys = << >> THEN idx
    ELSE LET c == Nearest(idx.centroids, Head(keys))
             entry == [id |-> idx.ntotal, vec |-> Head(keys)]
         IN IndexAddSkipsIds([idx EXCEPT !.lists[c] = Append(@, entry),
                                         !.ntotal = @ + 2],
                             Tail(keys))

RECURSIVE IndexAdd(_, _)
\* index.add(keys): each key gets the next id and goes to the list of its
\* nearest centroid.
IndexAdd(idx, keys) ==
    IF keys = << >> THEN idx
    ELSE LET c == Nearest(idx.centroids, Head(keys))
             entry == [id |-> idx.ntotal, vec |-> Head(keys)]
         IN IndexAdd([idx EXCEPT !.lists[c] = Append(@, entry),
                                 !.ntotal = @ + 1],
                     Tail(keys))

\* The lifecycle state of an index: Untrained, Trained (no vector yet) or
\* Populated.
Lifecycle(idx) ==
    IF ~idx.trained THEN "Untrained"
    ELSE IF idx.ntotal = 0 THEN "Trained" ELSE "Populated"

Range(s) == { s[i] : i \in 1..Len(s) }

\* Centroid a is probed before centroid b for query q.
CentroidBefore(cs, q, a, b) ==
    \/ Dist2(cs[a], q) < Dist2(cs[b], q)
    \/ Dist2(cs[a], q) = Dist2(cs[b], q) /\ a < b

\* The nprobe centroids nearest to q.
Probed(idx, q) ==
    { c \in 1..Len(idx.centroids) :
        Cardinality({ o \in 1..Len(idx.centroids) :
                        CentroidBefore(idx.centroids, q, o, c) }) < nprobe }

\* The entries of the probed lists.
Candidates(idx, q) == UNION { Range(idx.lists[c]) : c \in Probed(idx, q) }

\* Entry a is reported before entry b for query q.
EntryBefore(q, a, b) ==
    \/ Dist2(a.vec, q) < Dist2(b.vec, q)
    \/ Dist2(a.vec, q) = Dist2(b.vec, q) /\ a.id < b.id

\* The candidates in the order the search reports them.
Found(idx, q) ==
    LET S == Candidates(idx, q)
    IN [i \in 1..Cardinality(S) |->
            CHOOSE x \in S :
                Cardinality({ y \in S : EntryBefore(q, y, x) }) = i - 1]

\* index.search(query, k): k ids and k distances, a short result padded
\* with id -1 and distance FLT_MAX.
IndexSearch(idx, q, k) ==
    LET f == Found(idx, q)
    IN [I |-> [i \in 1..k |-> IF i <= Len(f) THEN f[i].id ELSE PadId],
        D |-> [i \in 1..k |->
                 IF i <= Len(f) THEN Dist2(f[i].vec, q) ELSE FltMax]]

\* ------------------------------------------------------------ label store

\* An attribute that __init__ does not create (label_id_store,
\* input_id_store), and a file of the directory.
Unset == [set |-> FALSE, v |-> << >>]
Holding(seq) == [set |-> TRUE, v |-> seq]

\* Whether store[id] exists; a negative id counts from the end, as tensor
\* indexing does.
InBounds(store, id) == 0 - Len(store) <= id /\ id < Len(store)

\* store[id] of tensor indexing.
At(store, id) == IF id >= 0 THEN store[id + 1] ELSE store[Len(store) + id + 1]

\* store[torch.tensor(I)]
Lookup(store, I) == [i \in 1..Len(I) |-> At(store, I[i])]

\* ----------------------------------------------------------- aggregation

RECURSIVE Pow2(_)
Pow2(n) == IF n <= 0 THEN 1 ELSE 2 * Pow2(n - 1)

RECURSIVE SumSeq(_)
SumSeq(s) == IF s = << >> THEN 0 ELSE Head(s) + SumSeq(Tail(s))

\* The logit -D / T of a distance, in units of ln(2)/2: the model's softmax
\* has base 4 instead of e, which keeps the weights rational. T # 0.
Logit(d, T) == 0 - ((2 * d) \div T)

\* torch.softmax(-D / T) for T # 0, as numerators over their common
\* denominator (their sum). The largest logit is subtracted first; a logit
\* that is FLT_MAX / |T| away from the largest one underflows to weight 0.
SoftmaxNum(D, T) ==
    LET K == 1..Len(D)
        top == CHOOSE i \in K : \A j \in K : Logit(D[j], T) <= Logit(D[i], T)
        near == { i \in K : (D[i] = FltMax) <=> (D[top] = FltMax) }
        low == CHOOSE i \in near :
                    \A j \in near : Logit(D[i], T) <= Logit(D[j], T)
    IN [i \in K |->
            IF i \in near THEN Pow2(Logit(D[i], T) - Logit(D[low], T)) ELSE 0]

\* scores.scatter(1, labels, weights, reduce="add") on a zero vector of
\* length V: position x receives the sum of the weights labelled x.
ScatterAdd(labels, num, V) ==
    [x \in 1..V |->
        SumSeq([i \in 1..Len(labels) |->
                    IF labels[i] = x - 1 THEN num[i] ELSE 0])]

\* search_k without its assertion.
VocabAssertionDropped(vocab) == TRUE

\* The assertion search_k opens with.
VocabAssertion(vocab) == vocab >= 1

Failed(status, q, k, T) ==
    [status |-> status, q |-> q, k |-> k, T |-> T, I |-> << >>,
     D |-> << >>, labels |-> << >>, inputs |-> << >>, num |-> << >>,
     nan |-> FALSE, scores |-> << >>]

\* search_k(query, k, T) on a datastore with the given attributes: the
\* exception it raises, or what it returns (scores, actual_input_ids, I)
\* with the intermediate tensors. With T = 0 every weight is NaN (nan).
SearchK(idx, lab, inp, vocab, q, k, T) ==
    IF ~VocabAssertion(vocab) THEN Failed("AssertionError", q, k, T)
    ELSE IF ~idx.trained THEN Failed("IndexNotTrained", q, k, T)
    ELSE LET r == IndexSearch(idx, q, k)
             ids == Range(r.I)
         IN IF ~lab.set \/ ~inp.set THEN Failed("AttributeError", q, k, T)
            ELSE IF \E id \in ids : ~InBounds(lab.v, id) \/ ~InBounds(inp.v, id)
                 THEN Failed("IndexError", q, k, T)
            ELSE LET labels == Lookup(lab.v, r.I)
                     num == IF T = 0 THEN [i \in 1..k |-> 0]
                            ELSE SoftmaxNum(r.D, T)
                 IN IF \E i \in 1..k : labels[i] \notin 0..(vocab - 1)
                    THEN Failed("ScatterOutOfRange", q, k, T)
                    ELSE [status |-> "ok", q |-> q, k |-> k, T |-> T,
                          I |-> r.I, D |-> r.D, labels |-> labels,
                          inputs |-> Lookup(inp.v, r.I), num |-> num,
                          nan |-> (T = 0),
                          scores |-> ScatterAdd(labels, num, vocab)]

\* The outcome of a call that is not a search.
Plain(status) == Failed(status, 0, 0, 0)

\* ------------------------------------------------------- train, save, load

\* TrainIndex that clusters again on an index that is already trained.
TrainIndexAgain(idx, keys) ==
    IF Len(keys) < n_centroids
    THEN { [status |-> "TooFewPoints", index |-> idx] }
    ELSE { [status |-> "ok", index |-> TrainedIndex(cs)] :
             cs \in TrainOutcomes(keys) }

\* self.index.train(key_store), then index_gpu_to_cpu: a trained index is
\* left as it is, a sample smaller than n_centroids is refused by k-means,
\* and otherwise the index gets its centroids.
TrainIndex(idx, keys) ==
    IF idx.trained THEN { [status |-> "ok", index |-> idx] }
    ELSE IF Len(keys) < n_centroids
         THEN { [status |-> "TooFewPoints", index |-> idx] }
    ELSE { [status |-> "ok", index |-> TrainedIndex(cs)] :
             cs \in TrainOutcomes(keys) }

NoFiles ==
    [index |-> [set |-> FALSE, v |-> EmptyIndex], token |-> Unset,
     input |-> Unset]

\* Save that writes the label ids to the input id file as well.
SaveLabelsTwice(dir, idx, lab, inp) ==
    IF ~idx.trained \/ ~lab.set \/ ~inp.set
    THEN [status |-> "IOError", dir |-> dir]
    ELSE [status |-> "ok",
          dir |-> [index |-> [set |-> TRUE, v |-> idx], token |-> lab,
                   input |-> lab]]

\* save(output_dir): the index file is written first (an untrained index is
\* still on the GPU and cannot be written), then the two id files; a missing
\* attribute ends the call with IOError and keeps what was written.
Save(dir, idx, lab, inp) ==
    IF ~idx.trained THEN [status |-> "IOError", dir |-> dir]
    ELSE LET d1 == [dir EXCEPT !.index = [set |-> TRUE, v |-> idx]]
         IN IF ~lab.set THEN [status |-> "IOError", dir |-> d1]
            ELSE LET d2 == [d1 EXCEPT !.token = lab]
                 IN IF ~inp.set THEN [status |-> "IOError", dir |-> d2]
                    ELSE [status |-> "ok",
                          dir |-> [d2 EXCEPT !.input = inp]]

\* load(saved_dir): index, label ids, input ids are read in this order; a
\* missing file ends the call and keeps what was already assigned.
Load(dir, idx, lab, inp) ==
    IF ~dir.index.set
    THEN [status |-> "FileNotFound", index |-> idx, lab |-> lab, inp |-> inp]
    ELSE IF ~dir.token.set
    THEN [status |-> "FileNotFound", index |-> dir.index.v, lab |-> lab,
          inp |-> inp]
    ELSE IF ~dir.input.set
    THEN [status |-> "FileNotFound", index |-> dir.index.v,
          lab |-> dir.token, inp |-> inp]
    ELSE [status |-> "ok", index |-> dir.index.v, lab |-> dir.token,
          inp |-> dir.input]

\* ------------------------------------------------------------------ state

VARIABLES
    features,        \* the rows of the feature directory of the run
    index,           \* self.index
    label_id_store,  \* self.label_id_store
    input_id_store,  \* self.input_id_store
    vocab_size,      \* self.vocab_size
    disk,            \* the files of the datastore directory
    out,             \* the last call on the instance and its outcome
    vocabSet,        \* set_vocab_size was called on this instance
    prepared,        \* a train or a load has completed on this instance
    snapshot         \* the attributes the last complete save wrote

vars ==
    << features, index, label_id_store, input_id_store, vocab_size, disk,
       out, vocabSet, prepared, snapshot >>

Call(op, pre, res) == [op |-> op, pre |-> pre, res |-> res]

NoSnapshot ==
    [valid |-> FALSE, index |-> EmptyIndex, lab |-> Unset, inp |-> Unset]

\* The snapshot after a save that ended as res.
Snap(res, idx, lab, inp) ==
    IF res.status = "ok"
    THEN [valid |-> TRUE, index |-> idx, lab |-> lab, inp |-> inp]
    ELSE IF res.dir = disk THEN snapshot ELSE NoSnapshot

\* The first m elements of a sequence.
Prefix(s, m) == [i \in 1..m |-> s[i]]

Column(rows, f) == [i \in 1..Len(rows) |-> rows[i][f]]

\* read_feature_files(feature_dir, percentage): the keys, label ids and
\* input ids of the first m rows, stacked.
ReadFeatureFiles(m) ==
    LET rows == Prefix(features, m)
    IN [keys |-> Column(rows, "key"), labels |-> Column(rows, "label"),
        inputs |-> Column(rows, "input")]

Init ==
    /\ features \in [1..FeatureRows -> Rows]
    /\ index = EmptyIndex
    /\ label_id_store = Unset
    /\ input_id_store = Unset
    /\ vocab_size = InitVocabSize
    /\ vocabSet = FALSE
    /\ prepared = FALSE
    /\ disk = NoFiles
    /\ snapshot = NoSnapshot
    /\ out = Call("init", "None", Plain("ok"))

\* DataStore(d, args), lines 43-62: a new instance takes the place of the
\* old one; the directory stays.
Construct ==
    /\ index' = EmptyIndex
    /\ label_id_store' = Unset
    /\ input_id_store' = Unset
    /\ vocab_size' = InitVocabSize
    /\ vocabSet' = FALSE
    /\ prepared' = FALSE
    /\ out' = Call("init", "None", Plain("ok"))
    /\ UNCHANGED << features, disk, snapshot >>

train_index ==
    \E t \in TrainIndex(index, ReadFeatureFiles(Len(features)).keys) :
        /\ index' = t.index
        /\ prepared' = (prepared \/ t.status = "ok")
        /\ out' = Call("train_index", Lifecycle(index), Plain(t.status))
        /\ UNCHANGED << features, label_id_store, input_id_store,
                        vocab_size, disk, vocabSet, snapshot >>

add_keys ==
    LET keys == ReadFeatureFiles(Len(features)).keys
    IN /\ index.trained => index.ntotal + Len(keys) <= MaxTotal
       /\ index' = IF index.trained THEN IndexAdd(index, keys) ELSE index
       /\ out' = Call("add_keys", Lifecycle(index),
                      Plain(IF index.trained THEN "ok"
                            ELSE "IndexNotTrained"))
       /\ UNCHANGED << features, label_id_store, input_id_store,
                       vocab_size, disk, vocabSet, prepared, snapshot >>

save ==
    LET r == Save(disk, index, label_id_store, input_id_store)
    IN /\ disk' = r.dir
       /\ snapshot' = Snap(r, index, label_id_store, input_id_store)
       /\ out' = Call("save", Lifecycle(index), Plain(r.status))
       /\ UNCHANGED << features, index, label_id_store, input_id_store,
                       vocab_size, vocabSet, prepared >>

load ==
    LET r == Load(disk, index, label_id_store, input_id_store)
    IN /\ index' = r.index
       /\ label_id_store' = r.lab
       /\ input_id_store' = r.inp
       /\ prepared' = (prepared \/ r.status = "ok")
       /\ out' = Call("load", Lifecycle(index), Plain(r.status))
       /\ UNCHANGED << features, vocab_size, disk, vocabSet, snapshot >>

set_vocab_size ==
    \E n \in VocabArgs :
        /\ vocab_size' = n
        /\ vocabSet' = TRUE
        /\ out' = Call("set_vocab_size", Lifecycle(index), Plain("ok"))
        /\ UNCHANGED << features, index, label_id_store, input_id_store,
                        disk, prepared, snapshot >>

search_k ==
    \E q \in Coord : \E k \in 1..MaxK : \E T \in Temps :
        /\ out' = Call("search_k", Lifecycle(index),
                       SearchK(index, label_id_store, input_id_store,
                               vocab_size, q, k, T))
        /\ UNCHANGED << features, index, label_id_store, input_id_store,
                        vocab_size, disk, vocabSet, prepared, snapshot >>

\* read_features_and_train(feature_dir, output_dir, percentage): the first
\* m rows are read (no row: np.stack raises before anything is assigned);
\* the two stores are assigned, then train_index, add_keys and save run,
\* and an exception of one of them ends the call. The optional whitening
\* maps the keys row by row before training and is not modelled.
read_features_and_train ==
    \E m \in 0..Len(features) :
    \E t \in TrainIndex(index, ReadFeatureFiles(m).keys) :
        LET pre == Lifecycle(index)
            f == ReadFeatureFiles(m)
            added == IndexAdd(t.index, f.keys)
            r == Save(disk, added, Holding(f.labels), Holding(f.inputs))
        IN IF m = 0
           THEN /\ out' = Call("read_features_and_train", pre,
                               Plain("ValueError"))
                /\ UNCHANGED << features, index, label_id_store,
                                input_id_store, vocab_size, disk, vocabSet,
                                prepared, snapshot >>
           ELSE /\ t.status = "ok" => t.index.ntotal + m <= MaxTotal
                /\ label_id_store' = Holding(f.labels)
                /\ input_id_store' = Holding(f.inputs)
                /\ index' = IF t.status = "ok" THEN added ELSE index
                /\ prepared' = (prepared \/ t.status = "ok")
                /\ disk' = IF t.status = "ok" THEN r.dir ELSE disk
                /\ snapshot' =
                      IF t.status = "ok"
                      THEN Snap(r, added, Holding(f.labels),
                                Holding(f.inputs))
                      ELSE snapshot
                /\ out' = Call("read_features_and_train", pre,
                               Plain(IF t.status = "ok" THEN r.status
                                     ELSE t.status))
                /\ UNCHANGED << features, vocab_size, vocabSet >>

Next ==
    \/ Construct
    \/ train_index
    \/ read_features_and_train
    \/ add_keys
    \/ save
    \/ load
    \/ set_vocab_size
    \/ search_k

Spec == Init /\ [][Next]_vars

\* ----------------------------------------------------------------- claims

Searched == out.op = "search_k"
Returned == Searched /\ out.res.status = "ok"

\* C1: a search on an instance on which set_vocab_size was never called
\* fails with the vocabulary assertion and returns no scores; a search that
\* returns has a vocabulary size of at least 1 set by set_vocab_size.
C1_VocabRequired ==
    /\ (Searched /\ ~vocabSet) =>
            out.res.status = "AssertionError" /\ out.res.scores = << >>
    /\ Returned => vocabSet /\ vocab_size >= 1

\* A loaded or trained, populated instance with both stores whose search
\* fails because set_vocab_size was never called.
C1_Witness ==
    /\ Searched /\ ~vocabSet /\ prepared
    /\ Lifecycle(index) = "Populated"
    /\ label_id_store.set /\ input_id_store.set
    /\ out.res.status = "AssertionError"

\* The entries of all inverted lists.
Entries(idx) == UNION { Range(idx.lists[c]) : c \in 1..Len(idx.lists) }
Ids(idx) == { e.id : e \in Entries(idx) }

\* Ids are 0..ntotal-1, one entry each, increasing along every list.
IdsContiguous(idx) ==
    /\ Ids(idx) = 0..(idx.ntotal - 1)
    /\ Cardinality(Entries(idx)) = idx.ntotal
    /\ SumSeq([c \in 1..Len(idx.lists) |-> Len(idx.lists[c])]) = idx.ntotal
    /\ \A c \in 1..Len(idx.lists) : \A i, j \in 1..Len(idx.lists[c]) :
            i < j => idx.lists[c][i].id < idx.lists[c][j].id

ReturnedWarm == Returned /\ out.res.T > 0

\* C4: no add_keys and no search_k returns before a train or a load has
\* completed on the instance, both are rejected on an Untrained datastore,
\* and a search returns only on a Populated one.
C4_Lifecycle ==
    /\ (out.op = "add_keys" /\ out.res.status = "ok") => prepared
    /\ ReturnedWarm => prepared
    /\ (out.op \in {"add_keys", "search_k"} /\ out.pre = "Untrained") =>
            out.res.status # "ok"
    /\ ReturnedWarm => out.pre = "Populated"

\* C5: the scores a search with k >= 1 returns sum to 1, that is, their
\* numerators sum to the common denominator of the softmax weights.
C5_MassConserved ==
    (Returned /\ out.res.k >= 1) =>
        /\ ~out.res.nan
        /\ SumSeq(out.res.num) > 0
        /\ SumSeq(out.res.scores) = SumSeq(out.res.num)

RECURSIVE SumOver(_, _)
\* The sum of f over the finite set S.
SumOver(S, f) ==
    IF S = {} THEN 0
    ELSE LET x == CHOOSE y \in S : TRUE IN f[x] + SumOver(S \ {x}, f)

\* C6: every score is the sum of the weights of the neighbours carrying
\* that label, 0 where no neighbour carries it, and where two neighbours
\* share a label its score exceeds the weight of either.
C6_Aggregation ==
    Returned =>
        LET r == out.res
            K == 1..Len(r.labels)
        IN /\ ~r.nan
           /\ \A x \in 1..Len(r.scores) :
                 r.scores[x] =
                    SumOver({ i \in K : r.labels[i] = x - 1 }, r.num)
           /\ \A i, j \in K :
                 (i # j /\ r.labels[i] = r.labels[j]) =>
                    /\ r.scores[r.labels[i] + 1] > r.num[i]
                    /\ r.scores[r.labels[i] + 1] > r.num[j]

\* C8: after a complete save, a load that returns leaves the instance with
\* the index and the two stores that were saved, and every search gives
\* what it gave on the saved attributes.
C8_RoundTrip ==
    (out.op = "load" /\ out.res.status = "ok" /\ snapshot.valid) =>
        /\ index = snapshot.index
        /\ label_id_store = snapshot.lab
        /\ input_id_store = snapshot.inp
        /\ \A V \in VocabArgs : \A q \in Coord :
           \A k \in 1..MaxK : \A T \in Temps :
                SearchK(index, label_id_store, input_id_store, V, q, k, T)
                    = SearchK(snapshot.index, snapshot.lab, snapshot.inp,
                              V, q, k, T)

\* A Populated datastore was saved and loaded into an untrained instance
\* on which set_vocab_size was not called.
C8_Witness ==
    /\ out.op = "load" /\ out.res.status = "ok" /\ snapshot.valid
    /\ out.pre = "Untrained" /\ ~vocabSet
    /\ index.ntotal = 2 /\ Len(label_id_store.v) = 2

\* C9: a search returns only the candidates of the probed lists: as many
\* neighbours as there are candidates (at most k), each the id, label and
\* input id of a candidate, and no placeholder id.
C9_ShortResult ==
    ReturnedWarm =>
        LET r == out.res
            cands == { e.id : e \in Candidates(index, r.q) }
            n == IF Cardinality(cands) < r.k THEN Cardinality(cands)
                 ELSE r.k
        IN /\ Len(r.I) = n
           /\ \A i \in 1..Len(r.I) :
                 /\ r.I[i] # PadId
                 /\ r.I[i] \in cands
                 /\ r.labels[i] \in
                        { At(label_id_store.v, id) : id \in cands }
                 /\ r.inputs[i] \in
                        { At(input_id_store.v, id) : id \in cands }

\* C10: a search with T <= 0 fails and produces no scores.
C10_TemperatureRejected ==
    (Searched /\ out.res.T <= 0) =>
        out.res.status # "ok" /\ out.res.scores = << >>
====
